---- MODULE Spec2Model ----
(***************************************************************************)
(* Model of simsurvey/cadence/simulsurvey.py: SurveyPlan (pointing table,  *)
(* field catalog, observed_on, get_obs_fields, get_non_field_obs),         *)
(* SimulSurvey (cached field / custom-pointing assignment, the blinded     *)
(* bias map, the run get_lightcurves, the covariance of _get_lightcurve_)  *)
(* and LightcurveCollection (add, bodies and metadata columns, indexing,   *)
(* save and load).                                                         *)
(*                                                                         *)
(* Python values are encoded as follows.  An optional value is a tuple:    *)
(* None is <<>> and a present value x is <<x>>.  The float NaN of the      *)
(* 'field' column is the integer NaN below, compared with FieldEq, which   *)
(* is false whenever a side is NaN, as == is on floats.  A call returns a  *)
(* record [err, val]: err is "ok" or the name of the exception raised.     *)
(* Sky positions, times and bias values are small integers.                *)
(***************************************************************************)
EXTENDS Integers, Sequences, FiniteSets, TLC

VARIABLES generator, plan, instruments, blinded_bias,
          obs_fields, non_field_obs, non_field_obs_exist,
          nevals, coll, added, file, op, args, ret

vars == <<generator, plan, instruments, blinded_bias, obs_fields,
          non_field_obs, non_field_obs_exist, nevals, coll, added, file,
          op, args, ret>>

\* ---------------------------------------------------------------- encoding
None == <<>>
Some(x) == <<x>>
Get(o) == o[1]
NaN == -1

Ok(v) == [err |-> "ok", val |-> v]
Raise(e) == [err |-> e, val |-> None]

Abs(x) == IF x < 0 THEN -x ELSE x

Range(s) == {s[i] : i \in 1..Len(s)}

EmptyColl == [lcs |-> None, meta |-> None]

\* len(collection.lcs), 0 for None
NumBodies(c) == IF c.lcs = None THEN 0 ELSE Len(Get(c.lcs))

\* bounds of the model
MaxRows == 2
MaxEvals == 2

\* np.isnan on one value of the 'field' column
IsNaN(x) == x = NaN

\* == on two float field values
FieldEq(a, b) == ~IsNaN(a) /\ ~IsNaN(b) /\ a = b

\* np.where(mask)[0] with 1-based positions: the positions where mask holds,
\* ascending
RECURSIVE Where(_)
Where(mask) ==
    IF mask = <<>> THEN <<>>
    ELSE LET r == Where(SubSeq(mask, 1, Len(mask) - 1))
         IN IF mask[Len(mask)] THEN Append(r, Len(mask)) ELSE r

\* table[idx]: the rows of table at the positions idx, in the order of idx
Take(table, idx) == [j \in 1..Len(idx) |-> table[idx[j]]]

RECURSIVE Flatten(_)
Flatten(ss) == IF ss = <<>> THEN <<>> ELSE Head(ss) \o Flatten(Tail(ss))

\* ------------------------------------------------------ field geometry
\* SurveyField(RA, Dec, width, height).coord_in_field(ra, dec): the position
\* lies in the rectangle of the given size centred on (RA, Dec)
coord_in_field(RA, Dec, width, height, ra, dec) ==
    /\ 2 * Abs(ra - RA) <= width
    /\ 2 * Abs(dec - Dec) <= height

\* SurveyFieldBins.coord2field(ra, dec) on arrays: per position, the ids of the
\* catalog's fields that contain it, in catalog order
coord2field(fields, width, height, ra, dec) ==
    [k \in 1..Len(ra) |->
        LET hit == Where([f \in 1..Len(fields) |->
                      coord_in_field(fields[f].ra, fields[f].dec,
                                     width, height, ra[k], dec[k])])
        IN [j \in 1..Len(hit) |-> fields[hit[j]].id]]

\* ------------------------------------------------------------ SurveyPlan
\* A plan is [cadence, fields, width, height]; cadence is the pointing table, a
\* sequence of rows [time, band, skynoise, RA, Dec, field]; fields is None or
\* the catalog, a sequence of [id, ra, dec].

\* the centre of the catalog field with the given id
FieldCentre(fields, id) ==
    LET i == CHOOSE i \in 1..Len(fields) : fields[i].id = id IN fields[i]

\* SurveyPlan.add_observation on an existing plan object: time, band,
\* skynoise are sequences; ra, dec, field are None or Some(sequence)
add_observation(p, time, band, skynoise, ra, dec, field) ==
    IF ra = None /\ dec = None /\ field = None THEN [err |-> "ValueError", val |-> p]
    ELSE IF ra = None /\ dec = None /\ p.fields = None
    THEN [err |-> "ValueError", val |-> p]
    ELSE LET n == Len(time)
             RAs == IF ra = None /\ dec = None
                    THEN [i \in 1..n |-> FieldCentre(Get(p.fields), Get(field)[i]).ra]
                    ELSE Get(ra)
             Decs == IF ra = None /\ dec = None
                     THEN [i \in 1..n |-> FieldCentre(Get(p.fields), Get(field)[i]).dec]
                     ELSE Get(dec)
             flds == IF field = None THEN [i \in 1..n |-> NaN] ELSE Get(field)
             new_obs == [i \in 1..n |->
                            [time |-> time[i], band |-> band[i],
                             skynoise |-> skynoise[i],
                             RA |-> RAs[i], Dec |-> Decs[i], field |-> flds[i]]]
         IN [err |-> "ok", val |-> [p EXCEPT !.cadence = p.cadence \o new_obs]]

\* 10 ** k for k >= 0
RECURSIVE Pow10(_)
Pow10(k) == IF k <= 0 THEN 1 ELSE 10 * Pow10(k - 1)

\* SurveyPlan.load_opsim(filename, band_dict, default_depth, zp) on the file
\* f, the rows [expMJD, filter, fieldRA, fieldDec, fieldID, fiveSigmaDepth] of
\* its table.  fieldRA and fieldDec are radians, written as the multiple of
\* _d2r they are, so that dividing by _d2r gives that number of degrees;
\* depths and zp are written in units of 2.5 mag, so that
\* 10 ** (-0.4 * (depth - zp)) is 10 ** (zp - depth); a depth is None for an
\* empty column.  band_dict is None or a map of the file's filter names (a
\* filter it lacks raises KeyError).  All rows are added in one call of
\* add_observation with ra, dec and field given: every row keeps the field
\* id and the position of the file.
load_opsim(p, f, band_dict, default_depth, zp) ==
    LET n == Len(f)
        depth == [i \in 1..n |-> IF f[i].fiveSigmaDepth = None THEN default_depth
                                 ELSE Get(f[i].fiveSigmaDepth)]
        skynoise == [i \in 1..n |-> Pow10(zp - depth[i]) \div 5]
    IN IF band_dict # None /\ \E i \in 1..n : f[i].filter \notin DOMAIN Get(band_dict)
       THEN [err |-> "KeyError", val |-> p]
       ELSE add_observation(p,
                [i \in 1..n |-> f[i].expMJD],
                [i \in 1..n |-> IF band_dict # None THEN Get(band_dict)[f[i].filter]
                                ELSE f[i].filter],
                skynoise,
                Some([i \in 1..n |-> f[i].fieldRA]),
                Some([i \in 1..n |-> f[i].fieldDec]),
                Some([i \in 1..n |-> f[i].fieldID]))

\* SurveyPlan.set_fields: the catalog is replaced; when the pointing table
\* already has a NaN field the call then raises (warnings.warning does not
\* exist), with the catalog already replaced
set_fields(p, fields) ==
    LET q == [p EXCEPT !.fields = Some(fields)]
    IN IF \E i \in 1..Len(p.cadence) : IsNaN(p.cadence[i].field)
       THEN [err |-> "AttributeError", val |-> q]
       ELSE [err |-> "ok", val |-> q]

\* SurveyPlan.get_obs_fields(ra, dec)
get_obs_fields(p, ra, dec) ==
    IF p.fields # None /\ ~(\A i \in 1..Len(p.cadence) : IsNaN(p.cadence[i].field))
    THEN Some(coord2field(Get(p.fields), p.width, p.height, ra, dec))
    ELSE None

\* the pointing rows with NaN field, as positions in the pointing table:
\* cadence[np.isnan(cadence["field"])]
NanRows(cadence) == Where([i \in 1..Len(cadence) |-> IsNaN(cadence[i].field)])

\* SurveyPlan.get_non_field_obs(ra, dec).  c = [single, ra, dec]: single is
\* TRUE for one scalar coordinate (coord_in_field then gives one np.bool_) and
\* FALSE for arrays.  Indices count within the NaN-field rows, from 0.
\* With arrays, single_coord is never assigned before 'if single_coord:' is
\* evaluated on the first pointing, which raises UnboundLocalError.
get_non_field_obs(p, c) ==
    LET gen == NanRows(p.cadence)
        b(k, l) == coord_in_field(p.cadence[gen[k]].RA, p.cadence[gen[k]].Dec,
                                  p.width, p.height, c.ra[l], c.dec[l])
    IN IF Len(gen) = 0 THEN Ok(None)
       ELSE IF ~c.single THEN Raise("UnboundLocalError")
       ELSE LET hit == Where([k \in 1..Len(gen) |-> b(k, 1)])
                out == [j \in 1..Len(hit) |-> hit[j] - 1]
            IN IF out # <<>> THEN Ok(Some(out)) ELSE Ok(None)

\* the rows observed_on collects before sorting: for each given field id, in
\* the order given, the rows with that field in table order; then the rows at
\* the given positions among the NaN-field rows.  Each row keeps time, band and
\* skynoise; 'row' records the position in the pointing table it came from.
OutRow(cadence, i) ==
    [time |-> cadence[i].time, band |-> cadence[i].band,
     skynoise |-> cadence[i].skynoise, row |-> i]

Collected(cadence, fields, non_field) ==
    LET byField ==
            IF fields = None THEN <<>>
            ELSE Flatten([j \in 1..Len(Get(fields)) |->
                     LET mask == Where([i \in 1..Len(cadence) |->
                                     FieldEq(cadence[i].field, Get(fields)[j])])
                     IN [m \in 1..Len(mask) |-> OutRow(cadence, mask[m])]])
        nan == NanRows(cadence)
        custom ==
            IF non_field = None THEN <<>>
            ELSE [j \in 1..Len(Get(non_field)) |->
                     OutRow(cadence, nan[Get(non_field)[j] + 1])]
    IN byField \o custom

\* np.argsort(table['time']) with the default, not stable, sort: any
\* permutation of the positions that puts the times in non-decreasing order
RECURSIVE ArgsortOf(_, _)
ArgsortOf(time, S) ==
    IF S = {} THEN {<<>>}
    ELSE UNION {{<<i>> \o rest : rest \in ArgsortOf(time, S \ {i})} :
                i \in {i \in S : \A j \in S : time[i] <= time[j]}}

argsort(time) == ArgsortOf(time, 1..Len(time))

\* InRange with the upper end of the range left out
InRangeHalfOpen(t, mjd_range) ==
    Take(t, Where([i \in 1..Len(t) |->
                      /\ t[i].time >= mjd_range[1]
                      /\ t[i].time < mjd_range[2]]))

\* t[(t['time'] >= lo) & (t['time'] <= hi)]
InRange(t, mjd_range) ==
    Take(t, Where([i \in 1..Len(t) |->
                      /\ t[i].time >= mjd_range[1]
                      /\ t[i].time <= mjd_range[2]]))

\* SurveyPlan.observed_on(fields, non_field, mjd_range): the set of results
\* the call can give (one per order argsort may choose among equal times)
observed_on(p, fields, non_field, mjd_range) ==
    IF fields = None /\ non_field = None THEN {Raise("ValueError")}
    ELSE IF non_field # None
            /\ \E j \in 1..Len(Get(non_field)) :
                   Get(non_field)[j] >= Len(NanRows(p.cadence))
    THEN {Raise("IndexError")}
    ELSE LET table == Collected(p.cadence, fields, non_field)
         IN {Ok(IF mjd_range = None THEN Take(table, idx)
                ELSE InRange(Take(table, idx), Get(mjd_range))) :
             idx \in argsort([i \in 1..Len(table) |-> table[i].time])}

\* ------------------------------------------------- LightcurveCollection
\* A lightcurve is [data, meta]: data is the table body, a sequence of rows;
\* meta is the ordered metadata, a sequence of [key, value], where value is the
\* sequence of elements np.append adds for it (one for a scalar, n*n for an
\* n x n matrix).  A collection is [lcs, meta]: lcs is None or the list of
\* bodies, meta is None or the ordered dict of columns, a sequence of
\* [key, col].

HasKey(meta_, k) == \E i \in 1..Len(meta_) : meta_[i].key = k

Lookup(meta_, k) ==
    meta_[CHOOSE i \in 1..Len(meta_) : meta_[i].key = k].value

Keys(meta_) == [i \in 1..Len(meta_) |-> meta_[i].key]

\* sncosmo's standardize_data(lc) on a body: the rows, sorted by time unless
\* they already are in non-decreasing time order (one outcome per order the
\* sort may give rows of equal time)
standardize_data(data) ==
    IF \A i \in 1..(Len(data) - 1) : data[i].time <= data[i + 1].time
    THEN {data}
    ELSE {Take(data, idx) : idx \in argsort([i \in 1..Len(data) |-> data[i].time])}

\* LightcurveCollection.meta (the property): dict_to_array builds an array as
\* long as the longest column and fills it column by column, which numpy
\* refuses unless a column has that length or length 1; it gives the names
MetaNames(cols) ==
    LET n == Len(cols)
        longest == CHOOSE L \in {Len(cols[i].col) : i \in 1..n} :
                       \A i \in 1..n : Len(cols[i].col) <= L
    IN IF n = 0 THEN Raise("ValueError")
       ELSE IF \A i \in 1..n : Len(cols[i].col) \in {longest, 1}
       THEN Ok(Keys(cols))
       ELSE Raise("ValueError")

\* the length of the longest column
Longest(cols) ==
    CHOOSE L \in {Len(cols[i].col) : i \in 1..Len(cols)} :
        \A i \in 1..Len(cols) : Len(cols[i].col) <= L

\* LightcurveCollection.meta (the property), the rows: the array
\* dict_to_array fills has one row per element of the longest column, and a
\* column of length 1 gives its element to every row.  A row is the ordered
\* list of [key, value], value holding the one element of the row.
meta_array(cols) ==
    IF MetaNames(cols).err # "ok" THEN Raise(MetaNames(cols).err)
    ELSE Ok([i \in 1..Longest(cols) |->
               [c \in 1..Len(cols) |->
                   [key |-> cols[c].key,
                    value |-> << IF Len(cols[c].col) = Longest(cols)
                                 THEN cols[c].col[i] ELSE cols[c].col[1] >>]]])

\* seq[start:stop] of Python for 0 <= start, stop
Slice(seq, start, stop) ==
    SubSeq(seq, start + 1, IF stop < Len(seq) THEN stop ELSE Len(seq))

\* LightcurveCollection.__getitem__(given) for an index i (0-based): the
\* metadata row is read first, then the body
getitem_index(c, i) ==
    IF c.meta = None THEN Raise("TypeError")
    ELSE LET m == meta_array(Get(c.meta))
         IN IF m.err # "ok" THEN m
            ELSE IF i >= Len(m.val) THEN Raise("IndexError")
            ELSE IF c.lcs = None THEN Raise("TypeError")
            ELSE IF i >= Len(Get(c.lcs)) THEN Raise("IndexError")
            ELSE Ok([data |-> Get(c.lcs)[i + 1], meta |-> m.val[i + 1]])

\* LightcurveCollection.__getitem__(given) for a slice: the bodies and the
\* metadata rows of the slice, zipped
getitem_slice(c, start, stop) ==
    IF c.lcs = None \/ c.meta = None THEN Raise("TypeError")
    ELSE LET m == meta_array(Get(c.meta))
         IN IF m.err # "ok" THEN m
            ELSE LET ds == Slice(Get(c.lcs), start, stop)
                     ms == Slice(m.val, start, stop)
                 IN Ok([j \in 1..(IF Len(ds) < Len(ms) THEN Len(ds) ELSE Len(ms)) |->
                          [data |-> ds[j], meta |-> ms[j]]])

\* LightcurveCollection.__getitem__(given)
getitem(c, given) ==
    IF given.slice THEN getitem_slice(c, given.start, given.stop)
    ELSE getitem_index(c, given.i)

\* LightcurveCollection._create_meta_(keys, dtypes): one empty column per key
create_meta(keys) == [i \in 1..Len(keys) |-> [key |-> keys[i], col |-> <<>>]]

\* the loop 'for k in names: meta[k] = np.append(meta[k], meta_[k])' from
\* the i-th name on: a key the item lacks raises KeyError, with the columns
\* before it already extended
RECURSIVE AppendColumns(_, _, _, _)
AppendColumns(cols, names, i, meta_) ==
    IF i > Len(names) THEN [err |-> "ok", val |-> cols]
    ELSE IF ~HasKey(meta_, names[i]) THEN [err |-> "KeyError", val |-> cols]
    ELSE LET c == CHOOSE c \in 1..Len(cols) : cols[c].key = names[i]
         IN AppendColumns(
                [cols EXCEPT ![c].col = cols[c].col \o Lookup(meta_, names[i])],
                names, i + 1, meta_)

\* one item of _add_meta_ on existing columns: the names are read through the
\* meta property, then the columns are extended
AddMetaItem(cols, meta_) ==
    LET names == MetaNames(cols)
    IN IF names.err # "ok" THEN [err |-> names.err, val |-> cols]
       ELSE AppendColumns(cols, names.val, 1, meta_)

RECURSIVE AddMetaItems(_, _, _)
AddMetaItems(cols, metas, i) ==
    IF i > Len(metas) THEN [err |-> "ok", val |-> cols]
    ELSE LET r == AddMetaItem(cols, metas[i])
         IN IF r.err # "ok" THEN r ELSE AddMetaItems(r.val, metas, i + 1)

\* LightcurveCollection._add_meta_(meta) on the meta property of the
\* collection (None or the columns): metas is the list of the items' metadata
\* (one element for a single item); an empty list on a collection without
\* metadata raises IndexError at meta[0].  The test 'self.meta is None' reads
\* the meta property, which raises on existing columns dict_to_array refuses,
\* also when the list is empty.
add_meta(m, metas) ==
    IF m = None /\ metas = <<>> THEN [err |-> "IndexError", val |-> m]
    ELSE IF m # None /\ MetaNames(Get(m)).err # "ok"
    THEN [err |-> MetaNames(Get(m)).err, val |-> m]
    ELSE LET cols == IF m = None THEN create_meta(Keys(metas[1])) ELSE Get(m)
             r == AddMetaItems(cols, metas, 1)
         IN [err |-> r.err, val |-> Some(r.val)]

\* _add_lcs_ putting the new bodies in front of the list
add_lcs_front(l, bodies) == Some(bodies \o (IF l = None THEN <<>> ELSE Get(l)))

\* LightcurveCollection._add_lcs_(lcs): the standardized bodies are appended
add_lcs(l, bodies) == Some((IF l = None THEN <<>> ELSE Get(l)) \o bodies)

\* LightcurveCollection.add(lcs), lcs a list of lightcurves (items) or one
\* lightcurve (items of length 1), given the standardized bodies: the bodies
\* are appended first, then the metadata
add(c, items, bodies) ==
    LET metas == [i \in 1..Len(items) |-> items[i].meta]
        r == add_meta(c.meta, metas)
    IN [err |-> r.err, val |-> [lcs |-> add_lcs(c.lcs, bodies), meta |-> r.val]]

\* the sequences [b1, ..., bn] with bi a possible standardized body of item i
RECURSIVE Standardized(_)
Standardized(items) ==
    IF items = <<>> THEN {<<>>}
    ELSE {<<b>> \o rest : b \in standardize_data(Head(items).data),
                          rest \in Standardized(Tail(items))}

\* the elements of a set (of bands, of field names), in some order
RECURSIVE SeqOfSet(_)
SeqOfSet(S) ==
    IF S = {} THEN <<>>
    ELSE LET x == CHOOSE x \in S : TRUE IN <<x>> \o SeqOfSet(S \ {x})

\* -------------------------------------------------- save and load (pickle)
\* A saved file is a stream of tokens, as cPickle writes the dict
\* {'lcs': ..., 'meta': ...}: NONE; LIST with the number of bodies, then the
\* bodies; ARRAY with the field names and the number of rows of a body, then
\* its values row by row; ODICT with the number of columns, then per column
\* COL with key and length and the values.

\* the field names of a body (the dtype of the structured array)
BodyNames(b) == IF Len(b) = 0 THEN <<>> ELSE SeqOfSet(DOMAIN b[1])

IndexOf(seq, x) == CHOOSE i \in 1..Len(seq) : seq[i] = x

pickle_body(b) ==
    LET names == BodyNames(b)
    IN << [t |-> "ARRAY", names |-> names, n |-> Len(b)] >>
       \o Flatten([i \in 1..Len(b) |->
                     [j \in 1..Len(names) |-> [t |-> "VAL", v |-> b[i][names[j]]]]])

pickle_lcs(l) ==
    IF l = None THEN << [t |-> "NONE"] >>
    ELSE << [t |-> "LIST", n |-> Len(Get(l))] >>
         \o Flatten([i \in 1..Len(Get(l)) |-> pickle_body(Get(l)[i])])

pickle_meta(m) ==
    IF m = None THEN << [t |-> "NONE"] >>
    ELSE << [t |-> "ODICT", n |-> Len(Get(m))] >>
         \o Flatten([i \in 1..Len(Get(m)) |->
                << [t |-> "COL", key |-> Get(m)[i].key, n |-> Len(Get(m)[i].col)] >>
                \o [j \in 1..Len(Get(m)[i].col) |->
                       [t |-> "VAL", v |-> Get(m)[i].col[j]]]])

\* LightcurveCollection.save(filename): the stream written for the stored
\* bodies and metadata columns
dump(c) == pickle_lcs(c.lcs) \o pickle_meta(c.meta)

\* reading back: each unpickle_ operator gives [val, next], the value read
\* from position pos of the stream s and the position after it
unpickle_body(s, pos) ==
    LET h == s[pos]
        w == Len(h.names)
    IN [val |-> [i \in 1..h.n |->
                   [name \in Range(h.names) |->
                       s[pos + (i - 1) * w + IndexOf(h.names, name)].v]],
        next |-> pos + 1 + h.n * w]

RECURSIVE unpickle_bodies(_, _, _, _)
unpickle_bodies(s, pos, n, acc) ==
    IF n = 0 THEN [val |-> acc, next |-> pos]
    ELSE LET b == unpickle_body(s, pos)
         IN unpickle_bodies(s, b.next, n - 1, Append(acc, b.val))

unpickle_lcs(s, pos) ==
    IF s[pos].t = "NONE" THEN [val |-> None, next |-> pos + 1]
    ELSE LET r == unpickle_bodies(s, pos + 1, s[pos].n, <<>>)
         IN [val |-> Some(r.val), next |-> r.next]

unpickle_col(s, pos) ==
    [val |-> [key |-> s[pos].key,
              col |-> [j \in 1..s[pos].n |-> s[pos + j].v]],
     next |-> pos + 1 + s[pos].n]

RECURSIVE unpickle_cols(_, _, _, _)
unpickle_cols(s, pos, n, acc) ==
    IF n = 0 THEN [val |-> acc, next |-> pos]
    ELSE LET c == unpickle_col(s, pos)
         IN unpickle_cols(s, c.next, n - 1, Append(acc, c.val))

unpickle_meta(s, pos) ==
    IF s[pos].t = "NONE" THEN [val |-> None, next |-> pos + 1]
    ELSE LET r == unpickle_cols(s, pos + 1, s[pos].n, <<>>)
         IN [val |-> Some(r.val), next |-> r.next]

\* load with the bodies and columns read added to those of the collection
load_append(c, s) ==
    LET l == unpickle_lcs(s, 1)
        m == unpickle_meta(s, l.next)
    IN [lcs |-> IF c.lcs = None THEN l.val
                ELSE IF l.val = None THEN c.lcs
                ELSE Some(Get(c.lcs) \o Get(l.val)),
        meta |-> IF c.meta = None THEN m.val
                 ELSE IF m.val = None THEN c.meta
                 ELSE Some(Get(c.meta) \o Get(m.val))]

\* LightcurveCollection.load(filename) on the collection c: the bodies and
\* the metadata columns are those read from the stream
load(c, s) ==
    LET l == unpickle_lcs(s, 1)
        m == unpickle_meta(s, l.next)
    IN [lcs |-> l.val, meta |-> m.val]

\* ------------------------------------------- SimulSurvey._get_lightcurve_

\* the loop 'for band in ...' of _get_lightcurve_ over the given bands:
\* st = [cov, save_cov]; for a band with err_calib not None, save_cov is set
\* and flux[k0] * flux[k1] * err**2 is added to cov[k0, k1] for all k0, k1
\* among the rows of that band
RECURSIVE CalibLoop(_, _, _, _, _)
CalibLoop(st, bands, obs, flux, inst) ==
    IF bands = <<>> THEN st
    ELSE LET band == Head(bands)
             err == inst[band].err_calib
             idx == {k \in 1..Len(obs) : obs[k].band = band}
             next ==
                 IF err # None
                 THEN [cov |-> [k0 \in 1..Len(obs) |-> [k1 \in 1..Len(obs) |->
                                  IF k0 \in idx /\ k1 \in idx
                                  THEN st.cov[k0][k1]
                                       + flux[k0] * flux[k1] * Get(err) * Get(err)
                                  ELSE st.cov[k0][k1]]],
                       save_cov |-> TRUE]
                 ELSE st
         IN CalibLoop(next, Tail(bands), obs, flux, inst)

\* fluxerr**2 = skynoise**2 + abs(flux) / gain, per row
fluxerr2(obs, flux) ==
    [k \in 1..Len(obs) |->
        obs[k].skynoise * obs[k].skynoise + (Abs(flux[k]) \div obs[k].gain)]

\* np.diag(fluxerr**2)
diag(v) == [k0 \in 1..Len(v) |-> [k1 \in 1..Len(v) |-> IF k0 = k1 THEN v[k0] ELSE 0]]

\* fluxcov with the calibration loop run once per row of obs instead of once
\* per band
fluxcov_per_row(obs, flux, inst) ==
    CalibLoop([cov |-> diag(fluxerr2(obs, flux)), save_cov |-> FALSE],
              [k \in 1..Len(obs) |-> obs[k].band], obs, flux, inst)

\* the covariance and the save_cov flag _get_lightcurve_ builds from the
\* observation table, the noiseless fluxes and the instruments
fluxcov(obs, flux, inst) ==
    CalibLoop([cov |-> diag(fluxerr2(obs, flux)), save_cov |-> FALSE],
              SeqOfSet({obs[k].band : k \in 1..Len(obs)}), obs, flux, inst)

\* a matrix as the sequence of its elements, row by row
ravel(m) == Flatten([k0 \in 1..Len(m) |-> m[k0]])

\* the blinded bias map a call of set_blinded_bias(bias) may store: a value
\* drawn between -v and v for every band k of bias, v its limit; old is the
\* map held before the call
set_blinded_bias_update(old, bias) ==
    {Some([k \in DOMAIN f \cup (IF old = None THEN {} ELSE DOMAIN Get(old)) |->
              IF k \in DOMAIN f THEN f[k] ELSE Get(old)[k]]) :
        f \in {f \in [DOMAIN bias ->
                         UNION {(-Abs(bias[k]))..Abs(bias[k]) : k \in DOMAIN bias}] :
                  \A k \in DOMAIN bias : Abs(f[k]) <= Abs(bias[k])}}

\* SimulSurvey.set_blinded_bias(bias): the maps the call may store, a new
\* dict with a value drawn by np.random.uniform(-v, v) per band of bias
set_blinded_bias(old, bias) ==
    {Some(f) :
        f \in {f \in [DOMAIN bias ->
                         UNION {(-Abs(bias[k]))..Abs(bias[k]) : k \in DOMAIN bias}] :
                  \A k \in DOMAIN bias : Abs(f[k]) <= Abs(bias[k])}}

\* bias_array of _get_lightcurve_: per row the bias of its band, 0 for a band
\* without bias or when no bias map is set (the flux is scaled by
\* 10 ** (-0.4 * bias_array))
bias_array(bias, obs) ==
    [k \in 1..Len(obs) |->
        IF bias # None /\ obs[k].band \in DOMAIN Get(bias)
        THEN Get(bias)[obs[k].band] ELSE 0]

\* SimulSurvey._get_lightcurve_(p, obs, idx_orig) for obs not None, given the
\* noiseless fluxes of the brightness model: the lightcurve [data, meta].  The
\* realized flux is the noiseless flux plus a random draw, scaled by the
\* blinded bias of the row (bias, in magnitudes), and is left out of the
\* rows; fluxerr2 is the diagonal of the covariance (fluxerr squared).
\* The metadata are the model parameters of p, then ra, dec, fluxcov (only if
\* save_cov), mwebv_sfd98 and idx_orig.
get_lightcurve(inst, bias, p, obs, flux, idx_orig) ==
    LET c == fluxcov(obs, flux, inst)
    IN [data |-> [k \in 1..Len(obs) |->
                     [time |-> obs[k].time, band |-> obs[k].band,
                      bias |-> bias_array(bias, obs)[k],
                      fluxerr2 |-> c.cov[k][k],
                      zp |-> obs[k].zp, zpsys |-> obs[k].zpsys]],
        meta |-> << [key |-> "z", value |-> <<p.z>>],
                    [key |-> "t0", value |-> <<p.t0>>],
                    [key |-> "ra", value |-> <<p.ra>>],
                    [key |-> "dec", value |-> <<p.dec>>] >>
                 \o (IF c.save_cov
                     THEN << [key |-> "fluxcov", value |-> ravel(c.cov)] >>
                     ELSE <<>>)
                 \o << [key |-> "mwebv_sfd98", value |-> <<p.mwebv_sfd98>>],
                       [key |-> "idx_orig", value |-> <<idx_orig>>] >>,
        cov |-> c.cov]

\* ------------------------------------------------------------ SimulSurvey
\* The survey is the variables generator, plan, instruments (each None or
\* Some(value)) and the derived properties obs_fields, non_field_obs (None or
\* Some(list)) and non_field_obs_exist ("None", "False" or "True").  A
\* generator is [transients, mintime, maxtime]: transients is the list of the
\* transients' parameters [ra, dec, t0, z, mwebv_sfd98, amp] (t0 is the mjd,
\* amp the noiseless flux the brightness model gives at every epoch), mintime
\* and maxtime are the rest-frame bounds of its model.  In the operators
\* below the derived properties travel as d = [obs_fields, non_field_obs,
\* non_field_obs_exist, nevals]; nevals counts the calls of
\* SurveyPlan.get_non_field_obs that returned since the plan last changed.

\* SimulSurvey.is_set()
is_set(g, p, inst) == ~(inst = None \/ g = None \/ p = None)

\* generator.ra and generator.dec as the arrays given to the plan
Coords(g) ==
    [single |-> FALSE,
     ra |-> [k \in 1..Len(g.transients) |-> g.transients[k].ra],
     dec |-> [k \in 1..Len(g.transients) |-> g.transients[k].dec]]

\* SimulSurvey._assign_obs_fields_()
assign_obs_fields(d, g, p) ==
    IF p = None \/ g = None THEN [err |-> "AttributeError", d |-> d]
    ELSE [err |-> "ok",
          d |-> [d EXCEPT !.obs_fields =
                    get_obs_fields(Get(p), Coords(Get(g)).ra, Coords(Get(g)).dec)]]

\* SimulSurvey._assign_non_field_obs_()
assign_non_field_obs(d, g, p) ==
    IF p = None \/ g = None THEN [err |-> "AttributeError", d |-> d]
    ELSE LET r == get_non_field_obs(Get(p), Coords(Get(g)))
         IN IF r.err # "ok" THEN [err |-> r.err, d |-> d]
            ELSE [err |-> "ok",
                  d |-> [d EXCEPT !.non_field_obs = r.val,
                                  !.nevals = d.nevals + 1]]

\* SimulSurvey.obs_fields (the property): [err, d, val]
read_obs_fields(d, g, p) ==
    LET a == IF d.obs_fields = None THEN assign_obs_fields(d, g, p)
             ELSE [err |-> "ok", d |-> d]
    IN [err |-> a.err, d |-> a.d,
        val |-> IF a.err = "ok" THEN a.d.obs_fields ELSE None]

\* SimulSurvey.non_field_obs (the property): [err, d, val]; val is the list
\* returned, with None for 'no custom pointing' per transient
read_non_field_obs(d, g, p) ==
    LET a == IF d.non_field_obs = None /\ d.non_field_obs_exist = "False"
             THEN assign_non_field_obs(d, g, p)
             ELSE [err |-> "ok", d |-> d]
        e == [a.d EXCEPT !.non_field_obs_exist =
                 IF a.d.non_field_obs = None THEN "False" ELSE "True"]
    IN IF a.err # "ok" THEN [err |-> a.err, d |-> a.d, val |-> None]
       ELSE IF e.non_field_obs_exist = "False"
       THEN IF g = None THEN [err |-> "AttributeError", d |-> e, val |-> None]
            ELSE [err |-> "ok", d |-> e,
                  val |-> [k \in 1..Len(Get(g).transients) |-> None]]
       ELSE [err |-> "ok", d |-> e,
             val |-> [k \in 1..Len(Get(e.non_field_obs)) |->
                         Some(Get(e.non_field_obs)[k])]]

\* the visibility window of the k-th transient:
\* (mjd + mintime * (1 + z), mjd + maxtime * (1 + z))
mjd_range(g, k) ==
    << g.transients[k].t0 + g.mintime * (1 + g.transients[k].z),
       g.transients[k].t0 + g.maxtime * (1 + g.transients[k].z) >>

\* the bands of the pointing table are all instruments: the check of
\* _get_observations_
instruments_known(p, inst) ==
    \A i \in 1..Len(p.cadence) : p.cadence[i].band \in DOMAIN inst

\* the table _get_observations_ yields from a non-empty result of observed_on
ObsTable(inst, t) ==
    [i \in 1..Len(t) |->
        [time |-> t[i].time, band |-> t[i].band, skynoise |-> t[i].skynoise,
         gain |-> inst[t[i].band].gain, zp |-> inst[t[i].band].zp,
         zpsys |-> inst[t[i].band].zpsys, row |-> t[i].row]]

Min(a, b) == IF a < b THEN a ELSE b

log_len(log, k) == IF log[k] = None THEN 0 ELSE Len(Get(log[k]))

\* the loop of get_lightcurves from the k-th element of the zip on: n is the
\* length of the zip, f and nf the lists zipped, c the collection so far and
\* log the results of observed_on so far (None for an empty one).  The set of
\* outcomes [err, coll, log]: an exception ends the run.  Building the table
\* of a transient looks up the instrument of every row's band (KeyError for a
\* band without instrument).
RECURSIVE RunFrom(_, _, _, _, _, _, _, _, _, _)
RunFrom(k, n, f, nf, g, p, inst, bias, c, log) ==
    IF k > n THEN {[err |-> "ok", coll |-> c, log |-> log]}
    ELSE UNION {
        IF r.err # "ok" THEN {[err |-> r.err, coll |-> c, log |-> log]}
        ELSE IF \E i \in 1..Len(r.val) : r.val[i].band \notin DOMAIN inst
        THEN {[err |-> "KeyError", coll |-> c, log |-> Append(log, Some(r.val))]}
        ELSE IF Len(r.val) > 0
        THEN LET obs == ObsTable(inst, r.val)
                 lc == get_lightcurve(inst, bias, g.transients[k], obs,
                           [i \in 1..Len(obs) |-> g.transients[k].amp], k - 1)
                 a == add(c, <<lc>>, <<lc.data>>)
             IN IF a.err # "ok"
                THEN {[err |-> a.err, coll |-> a.val, log |-> Append(log, Some(r.val))]}
                ELSE RunFrom(k + 1, n, f, nf, g, p, inst, bias, a.val,
                             Append(log, Some(r.val)))
        ELSE RunFrom(k + 1, n, f, nf, g, p, inst, bias, c, Append(log, None))
        : r \in observed_on(p, Some(f[k]), nf[k], Some(mjd_range(g, k)))}

\* SimulSurvey.get_lightcurves(progress_bar): the set of outcomes
\* [err, d, val, log]: d is the derived properties after the call, val the
\* collection returned (None when the call raises), log the results of
\* observed_on per transient; bias is the blinded bias map (None or the map).
\* is_set is tested at once and, with progress_bar, the two derived
\* properties are assigned at once.  _get_observations_ is a generator: its
\* body (the check of the bands, the reads of obs_fields and non_field_obs
\* and their zip) runs at its first next(), and izip asks the generator's
\* get_lightcurve_full_param() for a transient before it asks
\* _get_observations_ for a table.  With no transient in the generator the
\* body never runs: nothing is checked or read and the empty collection is
\* returned.
get_lightcurves(d, g, p, inst, bias, progress_bar) ==
    IF ~is_set(g, p, inst)
    THEN {[err |-> "AttributeError", d |-> d, val |-> None, log |-> <<>>]}
    ELSE
    LET fail(e, dd) == {[err |-> e, d |-> dd, val |-> None, log |-> <<>>]}
        a1 == IF progress_bar THEN assign_obs_fields(d, g, p)
              ELSE [err |-> "ok", d |-> d]
        a2 == IF progress_bar THEN assign_non_field_obs(a1.d, g, p)
              ELSE [err |-> "ok", d |-> a1.d]
        r1 == read_obs_fields(a2.d, g, p)
        r2 == read_non_field_obs(r1.d, g, p)
    IN IF a2.err # "ok" THEN fail(a2.err, a2.d)
       ELSE IF Len(Get(g).transients) = 0
       THEN {[err |-> "ok", d |-> a2.d, val |-> Some(EmptyColl), log |-> <<>>]}
       ELSE IF ~instruments_known(Get(p), Get(inst)) THEN fail("ValueError", a2.d)
       ELSE IF r2.err # "ok" THEN fail(r2.err, r2.d)
       ELSE IF r1.val = None THEN fail("TypeError", r2.d)
       ELSE LET n == Min(Min(Len(Get(r1.val)), Len(r2.val)),
                         Len(Get(g).transients))
            IN {[err |-> o.err, d |-> r2.d,
                 val |-> IF o.err = "ok" THEN Some(o.coll) ELSE None,
                 log |-> o.log] :
                o \in RunFrom(1, n, Get(r1.val), r2.val, Get(g), Get(p),
                              Get(inst), bias, EmptyColl, <<>>)}

\* ------------------------------------------------------- inputs of the model
\* the field catalog used by the plans of the model: two overlapping fields
Catalog == << [id |-> 1, ra |-> 0, dec |-> 0], [id |-> 2, ra |-> 2, dec |-> 0] >>

\* SurveyPlan(empty=True).create(..., width=2, height=2, fields=...) after
\* width, height and fields are set and before the pointings are added: the
\* pointing table is still None, written <<>> (create takes width and height;
\* __init__ does not hand its own on).  No call leaves a plan in this state.
NewPlan(fields) == [cadence |-> <<>>, fields |-> fields, width |-> 2, height |-> 2]

\* the single observations a call of add_observation adds in SpecObs:
\* [time, band, skynoise, ra, dec, field]
ObsInputs ==
    { [time |-> <<1>>, band |-> <<"g">>, skynoise |-> <<1>>,
       ra |-> None, dec |-> None, field |-> Some(<<1>>)],
      [time |-> <<1>>, band |-> <<"r">>, skynoise |-> <<2>>,
       ra |-> Some(<<0>>), dec |-> Some(<<0>>), field |-> None],
      [time |-> <<0>>, band |-> <<"g">>, skynoise |-> <<3>>,
       ra |-> None, dec |-> None, field |-> Some(<<2>>)] }

\* the calls of load_opsim: a file of one row, field 2 at the position
\* ra = 1 (not the centre of field 2), filter "z" read as band r, no depth;
\* default_depth = 27.5 mag and zp = 30 mag, which gives skynoise 2
OpsimInputs ==
    { [file |-> << [expMJD |-> 1, filter |-> "z", fieldRA |-> 1, fieldDec |-> 0,
                    fieldID |-> 2, fiveSigmaDepth |-> None] >>,
       band_dict |-> Some([z |-> "r"]), default_depth |-> 11, zp |-> 12] }

\* instruments as set_instruments stores them: per band gain, zp, zpsys and
\* err_calib (None when not given)
Instrument(gain, err) == [gain |-> gain, zp |-> 30, zpsys |-> "ab", err_calib |-> err]

\* ======================================================================
\* The survey: setters, changes of the held plan, reads of the derived
\* properties and runs.
\* ======================================================================
Transient(ra, t0, z, amp) ==
    [ra |-> ra, dec |-> 0, t0 |-> t0, z |-> z, mwebv_sfd98 |-> 0, amp |-> amp]

\* the generators given to set_target_generator: two transients, one in
\* field 1 only and one in field 2 only; one transient in both fields; no
\* transient (ntransient = 0)
GeneratorInputs ==
    { [transients |-> << Transient(0, 1, 0, 2), Transient(3, 1, 0, 2) >>,
       mintime |-> -1, maxtime |-> 1],
      [transients |-> << Transient(1, 1, 1, 4) >>,
       mintime |-> -1, maxtime |-> 1],
      [transients |-> <<>>, mintime |-> -1, maxtime |-> 1] }

\* SurveyPlan.create(time, ra, dec, band, skynoise, obs_field, width=2,
\* height=2, fields): the plan with its first pointings
PlanCreate(fields, time, band, skynoise, ra, dec, field) ==
    add_observation(NewPlan(fields), time, band, skynoise, ra, dec, field).val

\* SurveyPlan.create(width=2, height=2, fields, load_opsim=f, ...): the plan
\* with the pointings of the file
PlanCreateOpsim(fields, o) ==
    load_opsim(NewPlan(fields), o.file, o.band_dict, o.default_depth, o.zp).val

\* the plans given to set_plan: pointings of field 1 of a catalog; one custom
\* pointing and no catalog; a field pointing and a custom pointing; field 1
\* in band r and field 2 in band g
PlanInputs ==
    { PlanCreate(Some(Catalog), <<0, 3>>, <<"g", "r">>, <<1, 1>>,
                 None, None, Some(<<1, 1>>)),
      PlanCreate(None, <<1>>, <<"g">>, <<1>>, Some(<<0>>), Some(<<0>>), None),
      PlanCreate(Some(Catalog), <<1, 1>>, <<"g", "r">>, <<1, 2>>,
                 Some(<<0, 0>>), Some(<<0, 0>>), Some(<<1, NaN>>)),
      PlanCreate(Some(Catalog), <<1, 1>>, <<"r", "g">>, <<2, 1>>,
                 None, None, Some(<<1, 2>>)) }

\* the properties given to set_instruments
PropertiesInputs ==
    { [g |-> Instrument(1, None)],
      [g |-> Instrument(1, Some(1)), r |-> Instrument(2, None)] }

\* SimulSurvey.set_instruments(properties): add_instrument per band, on top
\* of the instruments already there
set_instruments(inst, properties) ==
    IF inst = None THEN Some(properties)
    ELSE Some([b \in DOMAIN Get(inst) \cup DOMAIN properties |->
                 IF b \in DOMAIN properties THEN properties[b] ELSE Get(inst)[b]])

Derived ==
    [obs_fields |-> obs_fields, non_field_obs |-> non_field_obs,
     non_field_obs_exist |-> non_field_obs_exist, nevals |-> nevals]

SetDerived(d) ==
    /\ obs_fields' = d.obs_fields
    /\ non_field_obs' = d.non_field_obs
    /\ non_field_obs_exist' = d.non_field_obs_exist
    /\ nevals' = d.nevals

Init ==
    /\ generator = None /\ plan = None /\ instruments = None
    /\ obs_fields = None /\ non_field_obs = None /\ non_field_obs_exist = "None"
    /\ nevals = 0 /\ coll = EmptyColl
    /\ blinded_bias = None /\ file = None /\ added = None
    /\ op = "init" /\ args = None /\ ret = Ok(None)

\* SimulSurvey.set_target_generator(generator)
SetTargetGenerator ==
    /\ \E g \in GeneratorInputs :
         /\ generator' = Some(g)
         /\ op' = "set_target_generator" /\ args' = g /\ ret' = Ok(None)
    /\ UNCHANGED <<added, blinded_bias, file, plan, instruments,
                   obs_fields, non_field_obs, non_field_obs_exist, nevals,
                   coll>>

\* SimulSurvey.set_plan(plan): the derived properties are reset
SetPlan ==
    /\ \E p \in PlanInputs :
         /\ plan' = Some(p)
         /\ op' = "set_plan" /\ args' = p /\ ret' = Ok(None)
    /\ obs_fields' = None
    /\ non_field_obs' = None
    /\ non_field_obs_exist' = "None"
    /\ nevals' = 0
    /\ UNCHANGED <<added, blinded_bias, file, generator, instruments, coll>>

\* SimulSurvey.set_instruments(properties)
SetInstruments ==
    /\ \E pr \in PropertiesInputs :
         /\ instruments' = set_instruments(instruments, pr)
         /\ op' = "set_instruments" /\ args' = pr /\ ret' = Ok(None)
    /\ UNCHANGED <<added, blinded_bias, file, generator, plan, obs_fields,
                   non_field_obs, non_field_obs_exist, nevals, coll>>

\* the limits given to set_blinded_bias, per band
BiasInputs == { [g |-> 1], [r |-> 0] }

\* SimulSurvey.set_blinded_bias(bias)
SetBlindedBias ==
    /\ \E b \in BiasInputs :
         /\ blinded_bias' \in set_blinded_bias(blinded_bias, b)
         /\ op' = "set_blinded_bias"
         /\ args' = [bias |-> b, before |-> blinded_bias]
         /\ ret' = Ok(None)
    /\ UNCHANGED <<added, generator, plan, instruments, obs_fields,
                   non_field_obs, non_field_obs_exist, nevals, coll, file>>

\* SurveyPlan.add_observation on the plan the survey holds
PlanAddObservation ==
    /\ plan # None
    /\ Len(Get(plan).cadence) < MaxRows
    /\ \E o \in ObsInputs :
         LET r == add_observation(Get(plan), o.time, o.band, o.skynoise,
                                  o.ra, o.dec, o.field)
         IN /\ plan' = Some(r.val)
            /\ op' = "add_observation" /\ args' = o
            /\ ret' = [err |-> r.err, val |-> None]
    /\ nevals' = 0
    /\ UNCHANGED <<added, blinded_bias, file, generator, instruments,
                   obs_fields, non_field_obs, non_field_obs_exist, coll>>

\* SurveyPlan.load_opsim on the plan the survey holds
PlanLoadOpsim ==
    /\ plan # None
    /\ \E o \in OpsimInputs :
         /\ Len(Get(plan).cadence) + Len(o.file) <= MaxRows
         /\ LET r == load_opsim(Get(plan), o.file, o.band_dict,
                                o.default_depth, o.zp)
            IN /\ plan' = Some(r.val)
               /\ op' = "load_opsim" /\ args' = o
               /\ ret' = [err |-> r.err, val |-> None]
    /\ nevals' = 0
    /\ UNCHANGED <<added, blinded_bias, file, generator, instruments,
                   obs_fields, non_field_obs, non_field_obs_exist, coll>>

\* SurveyPlan.set_fields on the plan the survey holds
PlanSetFields ==
    /\ plan # None
    /\ LET r == set_fields(Get(plan), Catalog)
       IN /\ plan' = Some(r.val)
          /\ op' = "set_fields" /\ args' = Catalog
          /\ ret' = [err |-> r.err, val |-> None]
    /\ nevals' = 0
    /\ UNCHANGED <<added, blinded_bias, file, generator, instruments,
                   obs_fields, non_field_obs, non_field_obs_exist, coll>>

\* a read of SimulSurvey.obs_fields
ReadObsFields ==
    /\ LET r == read_obs_fields(Derived, generator, plan)
       IN /\ SetDerived(r.d)
          /\ op' = "obs_fields" /\ args' = None
          /\ ret' = [err |-> r.err, val |-> r.val]
    /\ UNCHANGED <<added, blinded_bias, file, generator, plan, instruments,
                   coll>>

\* a read of SimulSurvey.non_field_obs
ReadNonFieldObs ==
    /\ nevals < MaxEvals
    /\ LET r == read_non_field_obs(Derived, generator, plan)
       IN /\ SetDerived(r.d)
          /\ op' = "non_field_obs" /\ args' = None
          /\ ret' = [err |-> r.err, val |-> r.val]
    /\ UNCHANGED <<added, blinded_bias, file, generator, plan, instruments,
                   coll>>

\* SimulSurvey.get_lightcurves(progress_bar)
GetLightcurves ==
    /\ nevals < MaxEvals
    /\ \E progress_bar \in BOOLEAN :
         \E r \in get_lightcurves(Derived, generator, plan, instruments,
                                  blinded_bias, progress_bar) :
            /\ SetDerived(r.d)
            /\ op' = "get_lightcurves"
            /\ args' = [progress_bar |-> progress_bar]
            /\ ret' = [err |-> r.err, val |-> r.val, log |-> r.log]
    /\ UNCHANGED <<added, blinded_bias, file, generator, plan, instruments,
                   coll>>

Next ==
    \/ SetTargetGenerator
    \/ SetPlan
    \/ SetInstruments
    \/ SetBlindedBias
    \/ PlanAddObservation
    \/ PlanLoadOpsim
    \/ PlanSetFields
    \/ ReadObsFields
    \/ ReadNonFieldObs
    \/ GetLightcurves

Spec == Init /\ [][Next]_vars

\* the 0-based position of pointing i among the NaN-field pointings
NanPos(cadence, i) ==
    Cardinality({j \in 1..(i - 1) : IsNaN(cadence[j].field)})

\* the custom-pointing positions get_non_field_obs is to report for the l-th
\* given coordinate
Containing(p, c, l) ==
    {NanPos(p.cadence, i) : i \in {i \in 1..Len(p.cadence) :
        /\ IsNaN(p.cadence[i].field)
        /\ coord_in_field(p.cadence[i].RA, p.cadence[i].Dec, p.width, p.height,
                          c.ra[l], c.dec[l])}}

\* ---------------------------------------------------------- C1, C2, C7, C9
\* the pointings that observe the k-th transient of g: those of a catalog
\* field that contains its position and the NaN-field pointings whose
\* footprint contains it
Covers(p, g, k, i) ==
    LET row == p.cadence[i]
        t == g.transients[k]
    IN IF IsNaN(row.field)
       THEN coord_in_field(row.RA, row.Dec, p.width, p.height, t.ra, t.dec)
       ELSE /\ p.fields # None
            /\ \E f \in 1..Len(Get(p.fields)) :
                  /\ Get(p.fields)[f].id = row.field
                  /\ coord_in_field(Get(p.fields)[f].ra, Get(p.fields)[f].dec,
                                    p.width, p.height, t.ra, t.dec)

\* ... at a time inside its visibility window, both ends included
Visible(p, g, k) ==
    {i \in 1..Len(p.cadence) :
        /\ Covers(p, g, k, i)
        /\ mjd_range(g, k)[1] <= p.cadence[i].time
        /\ p.cadence[i].time <= mjd_range(g, k)[2]}

\* the pointings in the k-th result of observed_on of a run
Logged(log, k) ==
    IF log[k] = None THEN {}
    ELSE {Get(log[k])[i].row : i \in 1..Len(Get(log[k]))}

\* C1 as stated: in a run, the observation table of every transient holds
\* exactly the pointings that observe it inside its visibility window, each
\* once.
C1_TablesExact ==
    op = "get_lightcurves" =>
        \A k \in 1..Len(ret.log) :
            /\ Logged(ret.log, k) = Visible(Get(plan), Get(generator), k)
            /\ log_len(ret.log, k) = Cardinality(Logged(ret.log, k))

\* the survey is configured: generator, plan and instruments are set and
\* every band of the pointing table has an instrument
Configured ==
    /\ is_set(generator, plan, instruments)
    /\ instruments_known(Get(plan), Get(instruments))

\* the idx_orig column of a collection
IdxOrig(c) ==
    IF c.meta = None THEN <<>>
    ELSE Get(c.meta)[CHOOSE i \in 1..Len(Get(c.meta)) :
                        Get(c.meta)[i].key = "idx_orig"].col

\* C2 as stated: a run of a configured survey does not raise, and it returns
\* a lightcurve for exactly the transients whose lookup gave an epoch.
C2_RunCompletes ==
    (op = "get_lightcurves" /\ Configured) =>
        /\ ret.err = "ok"
        /\ Len(ret.log) = Len(Get(generator).transients)
        /\ Range(IdxOrig(Get(ret.val))) =
              {k - 1 : k \in {k \in 1..Len(ret.log) : ret.log[k] # None}}
        /\ NumBodies(Get(ret.val)) = Cardinality(Range(IdxOrig(Get(ret.val))))

\* the custom-pointing assignment of the current plan and generator, in the
\* form the non_field_obs property returns it: per transient, the positions
\* of the NaN-field pointings containing it
CustomOf(p, g) ==
    [k \in 1..Len(g.transients) |-> Containing(p, Coords(g), k)]

\* C7 as stated: a read of the field assignment or of the custom-pointing
\* assignment gives the assignment of the plan as it is at the read, whatever
\* changed the plan before.
C7_ReadsFollowPlan ==
    /\ (op = "obs_fields" /\ plan # None /\ generator # None) =>
          /\ ret.err = "ok"
          /\ ret.val = get_obs_fields(Get(plan), Coords(Get(generator)).ra,
                                      Coords(Get(generator)).dec)
    /\ (op = "non_field_obs" /\ plan # None /\ generator # None) =>
          /\ ret.err = "ok"
          /\ Len(ret.val) = Len(Get(generator).transients)
          /\ \A k \in 1..Len(ret.val) :
                CustomOf(Get(plan), Get(generator))[k] =
                   (IF ret.val[k] = None THEN {} ELSE Range(Get(ret.val[k])))

\* C9 as stated: between two changes of the plan, get_non_field_obs of the
\* plan is evaluated at most once, over all runs and reads.
C9_EvaluatedOnce == nevals <= 1

\* ------------------------------------------------------------------- C16
\* the column of key k of a collection with metadata
Column(c, k) ==
    Get(c.meta)[CHOOSE i \in 1..Len(Get(c.meta)) : Get(c.meta)[i].key = k].col

\* the lightcurve the run realizes for the k-th transient (1-based) from the
\* k-th observation table of its log
Realized(k) ==
    LET obs == ObsTable(Get(instruments), Get(ret.log[k]))
    IN get_lightcurve(Get(instruments), blinded_bias,
                      Get(generator).transients[k], obs,
                      [i \in 1..Len(obs) |-> Get(generator).transients[k].amp],
                      k - 1)

\* C16: the collection a run returns lists the lightcurves in catalog order:
\* idx_orig is strictly increasing (so no transient appears twice), and the
\* entry with idx_orig = k has the body and the parameters realized from the
\* k-th transient of the catalog and the k-th observation table.
C16_CatalogOrder ==
    (op = "get_lightcurves" /\ ret.err = "ok") =>
        LET c == Get(ret.val)
            idx == IdxOrig(c)
        IN /\ Len(idx) = NumBodies(c)
           /\ \A i, j \in 1..Len(idx) : i < j => idx[i] < idx[j]
           /\ \A i \in 1..Len(idx) :
                 /\ idx[i] + 1 \in 1..Len(ret.log)
                 /\ idx[i] + 1 <= Len(Get(generator).transients)
                 /\ ret.log[idx[i] + 1] # None
                 /\ Get(c.lcs)[i] = Realized(idx[i] + 1).data
                 /\ \A k \in {"z", "t0", "ra", "dec"} :
                       <<Column(c, k)[i]>> = Lookup(Realized(idx[i] + 1).meta, k)

\* a run returned two lightcurves with different bodies
C16_Witness ==
    /\ op = "get_lightcurves" /\ ret.err = "ok"
    /\ NumBodies(Get(ret.val)) = 2
    /\ Get(Get(ret.val).lcs)[1] # Get(Get(ret.val).lcs)[2]

\* ------------------------------------------------------------------- C13
\* C13: a call set_blinded_bias(B) leaves a bias map whose bands are exactly
\* those of B, each value between -B[band] and +B[band], whatever map was
\* held before; every other operation (runs, set_plan, set_instruments,
\* set_target_generator, reads, changes of the plan) leaves the map as it is.
C13_BiasMap ==
    [][IF op' = "set_blinded_bias"
       THEN /\ blinded_bias' # None
            /\ DOMAIN Get(blinded_bias') = DOMAIN args'.bias
            /\ \A b \in DOMAIN args'.bias :
                  /\ -args'.bias[b] <= Get(blinded_bias')[b]
                  /\ Get(blinded_bias')[b] <= args'.bias[b]
       ELSE blinded_bias' = blinded_bias]_vars

\* set_blinded_bias was called on a survey that held a non-zero bias for a
\* band the new limits do not name
C13_Witness ==
    /\ op = "set_blinded_bias"
    /\ args.before # None
    /\ \E b \in DOMAIN Get(args.before) :
          b \notin DOMAIN args.bias /\ Get(args.before)[b] # 0

\* ------------------------------------------------------------------- C11
\* the transient (1-based) behind the i-th entry of the collection a run
\* returned
EntryTransient(c, i) == IdxOrig(c)[i] + 1

\* a band among the rows of the k-th observation table of the run has a
\* calibration error
HasCalibBand(log, inst, k) ==
    /\ log[k] # None
    /\ \E j \in 1..Len(Get(log[k])) :
          inst[Get(log[k])[j].band].err_calib # None

\* the metadata of the collection keep a covariance
KeepsCov(c) == c.meta # None /\ HasKey(Get(c.meta), "fluxcov")

\* C11 as stated: in the collection a run returns, the covariance of a
\* lightcurve is kept exactly when a band among its rows has a calibration
\* error, whatever the bands of the lightcurves appended before it.
C11_CovarianceKept ==
    (op = "get_lightcurves" /\ ret.err = "ok") =>
        \A i \in 1..Len(IdxOrig(Get(ret.val))) :
            HasCalibBand(ret.log, Get(instruments),
                         EntryTransient(Get(ret.val), i))
              <=> KeepsCov(Get(ret.val))

\* ------------------------------------------------------------------- C12
\* a band of the plan's pointings has no instrument
MissingBand(p, inst) ==
    \E i \in 1..Len(p.cadence) : p.cadence[i].band \notin DOMAIN inst

\* C12 as stated: a run of a survey whose generator, plan or instruments is
\* not set, or whose plan has a pointing in a band without instrument, raises
\* before any transient is looked up or realized: no observation table, no
\* lightcurve and no collection.  (The bands are checked in the body of the
\* generator _get_observations_, which a run over a generator without
\* transients never enters.)
C12_FailsBeforeRealizing ==
    (/\ op = "get_lightcurves"
     /\ \/ generator = None \/ plan = None \/ instruments = None
        \/ MissingBand(Get(plan), Get(instruments)))
    => /\ ret.err # "ok"
       /\ ret.val = None
       /\ ret.log = <<>>

\* ======================================================================
\* SurveyPlan on its own: a plan is built with add_observation and queried
\* with observed_on and get_non_field_obs.
\* ======================================================================
MaxObsRows == 2

FieldsInputs == {None, Some(<<1>>), Some(<<1, 2>>), Some(<<1, 1>>)}
NonFieldInputs == {None, Some(<<0>>), Some(<<1, 0>>), Some(<<0, 0>>)}
RangeInputs == {None, Some(<<1, 1>>), Some(<<0, 1>>)}
CoordInputs ==
    { [single |-> TRUE, ra |-> <<0>>, dec |-> <<0>>],
      [single |-> TRUE, ra |-> <<5>>, dec |-> <<0>>],
      [single |-> FALSE, ra |-> <<0>>, dec |-> <<0>>],
      [single |-> FALSE, ra |-> <<0, 5>>, dec |-> <<0, 0>>] }

\* the plan as create leaves it: with a catalog and the first pointing, given
\* as an observation or read from a file
InitObs ==
    /\ plan \in {Some(PlanCreate(Some(Catalog), o.time, o.band, o.skynoise,
                                  o.ra, o.dec, o.field)) : o \in ObsInputs}
              \cup {Some(PlanCreateOpsim(Some(Catalog), o)) : o \in OpsimInputs}
    /\ generator = None /\ instruments = None
    /\ obs_fields = None /\ non_field_obs = None /\ non_field_obs_exist = "None"
    /\ nevals = 0 /\ coll = EmptyColl
    /\ blinded_bias = None /\ file = None /\ added = None
    /\ op = "init" /\ args = None /\ ret = Ok(None)

ObsAddObservation ==
    /\ Len(Get(plan).cadence) < MaxObsRows
    /\ \E o \in ObsInputs :
         LET r == add_observation(Get(plan), o.time, o.band, o.skynoise,
                                  o.ra, o.dec, o.field)
         IN /\ plan' = Some(r.val)
            /\ op' = "add_observation" /\ args' = o
            /\ ret' = [err |-> r.err, val |-> None]
    /\ UNCHANGED <<added, blinded_bias, file, generator, instruments,
                   obs_fields, non_field_obs, non_field_obs_exist, nevals,
                   coll>>

ObsLoadOpsim ==
    /\ \E o \in OpsimInputs :
         /\ Len(Get(plan).cadence) + Len(o.file) <= MaxObsRows
         /\ LET r == load_opsim(Get(plan), o.file, o.band_dict,
                                o.default_depth, o.zp)
            IN /\ plan' = Some(r.val)
               /\ op' = "load_opsim" /\ args' = o
               /\ ret' = [err |-> r.err, val |-> None]
    /\ UNCHANGED <<added, blinded_bias, file, generator, instruments,
                   obs_fields, non_field_obs, non_field_obs_exist, nevals,
                   coll>>

ObsObservedOn ==
    /\ \E f \in FieldsInputs, n \in NonFieldInputs, m \in RangeInputs :
         \E r \in observed_on(Get(plan), f, n, m) :
            /\ op' = "observed_on"
            /\ args' = [fields |-> f, non_field |-> n, mjd_range |-> m]
            /\ ret' = r
    /\ UNCHANGED <<added, blinded_bias, file, generator, plan, instruments,
                   obs_fields, non_field_obs, non_field_obs_exist, nevals,
                   coll>>

ObsGetNonFieldObs ==
    /\ \E c \in CoordInputs :
            /\ op' = "get_non_field_obs"
            /\ args' = c
            /\ ret' = get_non_field_obs(Get(plan), c)
    /\ UNCHANGED <<added, blinded_bias, file, generator, plan, instruments,
                   obs_fields, non_field_obs, non_field_obs_exist, nevals,
                   coll>>

NextObs ==
    \/ ObsAddObservation
    \/ ObsLoadOpsim
    \/ ObsObservedOn
    \/ ObsGetNonFieldObs

SpecObs == InitObs /\ [][NextObs]_vars

\* ---------------------------------------------------------------- C5, C6, C8
Distinct(s) == \A i, j \in 1..Len(s) : i # j => s[i] # s[j]

OptDistinct(o) == o = None \/ Distinct(Get(o))

\* the pointings a call of observed_on asks for: those whose field is one of
\* the given ids and the NaN-field pointings at the given positions, within
\* the time range
Asked(cadence, a) ==
    {i \in 1..Len(cadence) :
        /\ \/ /\ a.fields # None
              /\ \E j \in 1..Len(Get(a.fields)) :
                    cadence[i].field # NaN /\ cadence[i].field = Get(a.fields)[j]
           \/ /\ a.non_field # None
              /\ IsNaN(cadence[i].field)
              /\ \E j \in 1..Len(Get(a.non_field)) :
                    Get(a.non_field)[j] = NanPos(cadence, i)
        /\ \/ a.mjd_range = None
           \/ /\ Get(a.mjd_range)[1] <= cadence[i].time
              /\ cadence[i].time <= Get(a.mjd_range)[2]}

\* the given custom-pointing positions all exist
IndicesValid(cadence, a) ==
    \/ a.non_field = None
    \/ \A j \in 1..Len(Get(a.non_field)) :
          Get(a.non_field)[j] < Len(NanRows(cadence))

\* the returned table is in non-decreasing time order, holds each asked
\* pointing once and nothing else, with the pointing's time, band and skynoise
ExactResult(cadence, a, t) ==
    /\ \A i \in 1..(Len(t) - 1) : t[i].time <= t[i + 1].time
    /\ {t[i].row : i \in 1..Len(t)} = Asked(cadence, a)
    /\ Len(t) = Cardinality(Asked(cadence, a))
    /\ \A i \in 1..Len(t) :
          /\ t[i].time = cadence[t[i].row].time
          /\ t[i].band = cadence[t[i].row].band
          /\ t[i].skynoise = cadence[t[i].row].skynoise

\* C5 as stated: observed_on raises when neither fields nor non_field is
\* given and otherwise returns, time-sorted, exactly the asked pointings, each
\* once, for any field ids and custom-pointing positions given.
C5_Original ==
    op = "observed_on" =>
        IF args.fields = None /\ args.non_field = None
        THEN ret.err = "ValueError"
        ELSE IndicesValid(Get(plan).cadence, args) =>
                /\ ret.err = "ok"
                /\ ExactResult(Get(plan).cadence, args, ret.val)

\* C5 (amended): observed_on raises when neither fields nor non_field is
\* given; when the given field ids are pairwise distinct and the given
\* custom-pointing positions are pairwise distinct (and exist), it returns in
\* non-decreasing time order exactly the pointings whose field is one of the
\* ids together with the NaN-field pointings at the given positions, restricted
\* to mjd_range[0] <= time <= mjd_range[1], each pointing once.
C5_ObservedOnExact ==
    op = "observed_on" =>
        IF args.fields = None /\ args.non_field = None
        THEN ret.err = "ValueError"
        ELSE (/\ IndicesValid(Get(plan).cadence, args)
              /\ OptDistinct(args.fields) /\ OptDistinct(args.non_field)) =>
                /\ ret.err = "ok"
                /\ ExactResult(Get(plan).cadence, args, ret.val)

\* a call with two field ids and a time range returned two pointings, one at
\* each end of the range, in the opposite of the order it collected them in
C5_Witness ==
    /\ op = "observed_on" /\ ret.err = "ok"
    /\ args.fields = Some(<<1, 2>>) /\ args.mjd_range = Some(<<0, 1>>)
    /\ OptDistinct(args.non_field)
    /\ Len(ret.val) = 2
    /\ ret.val[1].time = 0 /\ ret.val[2].time = 1
    /\ Get(plan).cadence[ret.val[1].row].field = 2
    /\ Get(plan).cadence[ret.val[2].row].field = 1

\* C6 as stated: two returned rows of equal time appear in the order their
\* pointings have in the pointing table.
C6_TiesInPlanOrder ==
    (op = "observed_on" /\ ret.err = "ok") =>
        \A i, j \in 1..Len(ret.val) :
            (i < j /\ ret.val[i].time = ret.val[j].time) =>
                ret.val[i].row <= ret.val[j].row

\* C8 as stated: with arrays of N >= 1 positions get_non_field_obs does not
\* raise, and it gives for each position the positions of the NaN-field
\* pointings that contain it (None standing for none at all).
C8_NonFieldObsArrays ==
    (op = "get_non_field_obs" /\ ~args.single) =>
        /\ ret.err = "ok"
        /\ \A l \in 1..Len(args.ra) :
              Containing(Get(plan), args, l) =
                 (IF ret.val = None THEN {} ELSE Range(Get(ret.val)[l]))

\* ======================================================================
\* LightcurveCollection on its own: a collection built by add calls.
\* ======================================================================
MaxLcs == 2

Body1 == << [time |-> 0, band |-> "g", flux |-> 2] >>
Body2 == << [time |-> 0, band |-> "g", flux |-> 2],
            [time |-> 1, band |-> "r", flux |-> 3] >>

\* the lightcurves given to add in SpecColl: metadata with the keys ra and
\* idx_orig; without idx_orig; with a 2 x 2 covariance matrix as well
ItemInputs ==
    { [data |-> Body1,
       meta |-> << [key |-> "ra", value |-> <<0>>],
                   [key |-> "idx_orig", value |-> <<0>>] >>],
      [data |-> Body1,
       meta |-> << [key |-> "ra", value |-> <<1>>] >>],
      [data |-> Body2,
       meta |-> << [key |-> "ra", value |-> <<1>>],
                   [key |-> "fluxcov", value |-> <<5, 1, 1, 6>>],
                   [key |-> "idx_orig", value |-> <<1>>] >>] }

\* the arguments of add: one lightcurve, or a list of none, one or two
AddInputs ==
    {[list |-> FALSE, items |-> <<x>>] : x \in ItemInputs}
    \cup {[list |-> TRUE, items |-> <<>>]}
    \cup {[list |-> TRUE, items |-> <<x>>] : x \in ItemInputs}
    \cup {[list |-> TRUE, items |-> <<x, y>>] : x \in ItemInputs, y \in ItemInputs}

\* added is None or the list of the lightcurves given to the adds that built
\* the collection, while every add since it was new succeeded
InitColl ==
    /\ coll = EmptyColl
    /\ plan = None /\ generator = None /\ instruments = None
    /\ obs_fields = None /\ non_field_obs = None /\ non_field_obs_exist = "None"
    /\ nevals = 0
    /\ blinded_bias = None /\ file = None /\ added = Some(<<>>)
    /\ op = "init" /\ args = None /\ ret = Ok(None)

CollAdd ==
    /\ \E a \in AddInputs :
         /\ NumBodies(coll) + Len(a.items) <= MaxLcs
         /\ \E bodies \in Standardized(a.items) :
              LET r == add(coll, a.items, bodies)
              IN /\ coll' = r.val
                 /\ added' = IF r.err = "ok" /\ added # None
                             THEN Some(Get(added) \o a.items) ELSE None
                 /\ op' = "add"
                 /\ args' = [list |-> a.list, items |-> a.items, before |-> coll]
                 /\ ret' = [err |-> r.err, val |-> None]
    /\ UNCHANGED <<blinded_bias, file, generator, plan, instruments,
                   obs_fields, non_field_obs, non_field_obs_exist, nevals>>

\* LightcurveCollection(empty=True): the handle is a new, empty collection
CollNew ==
    /\ coll' = EmptyColl
    /\ added' = Some(<<>>)
    /\ op' = "new" /\ args' = None /\ ret' = Ok(None)
    /\ UNCHANGED <<blinded_bias, file, generator, plan, instruments,
                   obs_fields, non_field_obs, non_field_obs_exist, nevals>>

\* LightcurveCollection.save(filename): file is None (no file) or
\* [stream, saved, added], the stream written, the collection it was written
\* from and the lightcurves that built it
CollSave ==
    /\ file' = Some([stream |-> dump(coll), saved |-> coll, added |-> added])
    /\ op' = "save" /\ args' = None /\ ret' = Ok(None)
    /\ UNCHANGED <<blinded_bias, coll, added, generator, plan, instruments,
                   obs_fields, non_field_obs, non_field_obs_exist, nevals>>

\* LightcurveCollection.load(filename): IOError when there is no file
CollLoad ==
    /\ IF file = None
       THEN coll' = coll /\ added' = added /\ ret' = Raise("IOError")
       ELSE /\ coll' = load(coll, Get(file).stream)
            /\ added' = Get(file).added
            /\ ret' = Ok(None)
    /\ op' = "load" /\ args' = [before |-> coll]
    /\ UNCHANGED <<blinded_bias, file, generator, plan, instruments,
                   obs_fields, non_field_obs, non_field_obs_exist, nevals>>

\* the indices and slices given to collection[...]: 0-based, a slice is
\* [start, stop)
GivenInputs ==
    {[slice |-> FALSE, i |-> i] : i \in 0..1}
    \cup {[slice |-> TRUE, start |-> 0, stop |-> 1],
          [slice |-> TRUE, start |-> 0, stop |-> 2],
          [slice |-> TRUE, start |-> 1, stop |-> 2]}

\* a read collection[given]
CollGetItem ==
    /\ \E given \in GivenInputs :
         /\ op' = "getitem"
         /\ args' = [given |-> given, before |-> coll]
         /\ ret' = getitem(coll, given)
    /\ UNCHANGED <<blinded_bias, coll, added, file, generator, plan,
                   instruments, obs_fields, non_field_obs,
                   non_field_obs_exist, nevals>>

NextColl ==
    \/ CollAdd
    \/ CollNew
    \/ CollSave
    \/ CollLoad
    \/ CollGetItem

SpecColl == InitColl /\ [][NextColl]_vars

\* ------------------------------------------------------------------ C3, C4
\* C3 as stated: after any sequence of add calls every metadata column is as
\* long as the list of bodies.
C3_BodiesMatchMeta ==
    /\ coll.meta # None =>
          \A i \in 1..Len(Get(coll.meta)) :
              Len(Get(coll.meta)[i].col) = NumBodies(coll)
    /\ coll.meta = None => NumBodies(coll) = 0

\* the metadata keys of the item differ from the keys of the columns
KeysDiffer(cols, meta_) == Range(Keys(cols)) # Range(Keys(meta_))

\* C4 as stated: once the schema is fixed, an add with an item whose key set
\* differs from the schema raises and leaves bodies and metadata as they were.
C4_MismatchRejected ==
    (/\ op = "add"
     /\ args.before.meta # None
     /\ \E i \in 1..Len(args.items) :
           KeysDiffer(Get(args.before.meta), args.items[i].meta)) =>
        /\ ret.err # "ok"
        /\ coll = args.before

\* ------------------------------------------------------------------- C14
\* C14: after save(path) and a later load(path) into the collection, empty
\* or populated, the collection holds as many bodies as were saved, each
\* equal row by row and field by field to the saved one, and the saved
\* metadata columns, key by key and value by value: load replaces what the
\* collection held.
C14_RoundTrip ==
    (op = "load" /\ ret.err = "ok") =>
        LET saved == Get(file).saved
        IN /\ (coll.lcs = None) <=> (saved.lcs = None)
           /\ NumBodies(coll) = NumBodies(saved)
           /\ \A i \in 1..NumBodies(saved) :
                 /\ Len(Get(coll.lcs)[i]) = Len(Get(saved.lcs)[i])
                 /\ \A k \in 1..Len(Get(saved.lcs)[i]) :
                       /\ DOMAIN Get(coll.lcs)[i][k] = DOMAIN Get(saved.lcs)[i][k]
                       /\ \A n \in DOMAIN Get(saved.lcs)[i][k] :
                             Get(coll.lcs)[i][k][n] = Get(saved.lcs)[i][k][n]
           /\ (coll.meta = None) <=> (saved.meta = None)
           /\ saved.meta # None =>
                 /\ Keys(Get(coll.meta)) = Keys(Get(saved.meta))
                 /\ \A c \in 1..Len(Get(saved.meta)) :
                       Get(coll.meta)[c].col = Get(saved.meta)[c].col

\* a load into a populated collection that differed from the saved one,
\* which held two bodies and metadata
C14_Witness ==
    /\ op = "load" /\ ret.err = "ok"
    /\ NumBodies(Get(file).saved) >= 2
    /\ Get(file).saved.meta # None
    /\ NumBodies(args.before) >= 1
    /\ args.before # Get(file).saved

\* ------------------------------------------------------------------- C15
\* metadata as the set of its (key, value) pairs
MetaPairs(meta_) == {<<meta_[i].key, meta_[i].value>> : i \in 1..Len(meta_)}

\* the view v is the i-th (0-based) lightcurve given to add: its body,
\* standardized, and its metadata
IsAdded(v, i) ==
    /\ v.data \in standardize_data(Get(added)[i + 1].data)
    /\ MetaPairs(v.meta) = MetaPairs(Get(added)[i + 1].meta)

\* C15 as stated: on a collection built by successful adds, collection[i]
\* gives the i-th added body with the metadata of the i-th added lightcurve,
\* collection[a:b] gives the list of collection[i] for i from a to b - 1, and
\* the read leaves the stored bodies and metadata as they were.
C15_GetItem ==
    (op = "getitem" /\ added # None) =>
        /\ coll = args.before
        /\ (~args.given.slice /\ args.given.i < Len(Get(added))) =>
              /\ ret.err = "ok"
              /\ IsAdded(ret.val, args.given.i)
        /\ (args.given.slice /\ args.given.stop <= Len(Get(added))) =>
              /\ ret.err = "ok"
              /\ Len(ret.val) = args.given.stop - args.given.start
              /\ \A j \in 1..Len(ret.val) :
                    IsAdded(ret.val[j], args.given.start + j - 1)

\* ======================================================================
\* _get_lightcurve_ on its own: one call on a given observation table.
\* ======================================================================
MaxCovRows == 3

InstrumentInputs ==
    {[g |-> Instrument(1, eg), r |-> Instrument(2, er)] :
        eg \in {None, Some(1)}, er \in {None, Some(2)}}

\* a row of the observation table in a band of the given instruments
CovRow(inst, t, b) ==
    [time |-> t, band |-> b, skynoise |-> 1,
     gain |-> inst[b].gain, zp |-> inst[b].zp, zpsys |-> inst[b].zpsys]

FluxInputs == {-2, 4}

ParamInput == [z |-> 0, t0 |-> 1, ra |-> 0, dec |-> 0, mwebv_sfd98 |-> 0]

InitCov ==
    /\ instruments \in {Some(i) : i \in InstrumentInputs}
    /\ plan = None /\ generator = None
    /\ obs_fields = None /\ non_field_obs = None /\ non_field_obs_exist = "None"
    /\ nevals = 0 /\ coll = EmptyColl
    /\ blinded_bias = None /\ file = None /\ added = None
    /\ op = "init" /\ args = None /\ ret = Ok(None)

CovGetLightcurve ==
    /\ \E n \in 1..MaxCovRows :
         \E bands \in [1..n -> {"g", "r"}], flux \in [1..n -> FluxInputs] :
            LET obs == [k \in 1..n |-> CovRow(Get(instruments), k, bands[k])]
            IN /\ op' = "_get_lightcurve_"
               /\ args' = [obs |-> obs, flux |-> flux]
               /\ ret' = Ok(get_lightcurve(Get(instruments), blinded_bias,
                                            ParamInput, obs, flux, 0))
    /\ UNCHANGED <<added, blinded_bias, file, generator, plan, instruments,
                   obs_fields, non_field_obs, non_field_obs_exist, nevals,
                   coll>>

NextCov == CovGetLightcurve

SpecCov == InitCov /\ [][NextCov]_vars

\* --------------------------------------------------------------------- C10
\* C10: in the covariance of one transient, for rows i # j the entry is
\* flux_i * flux_j * e^2 when both rows are in one band whose calibration error
\* is e, and 0 when the bands differ or the band has no calibration error; the
\* matrix is symmetric.
C10_OffDiagonal ==
    op = "_get_lightcurve_" =>
        LET obs == args.obs
            flux == args.flux
            cov == ret.val.cov
            inst == Get(instruments)
        IN \A i, j \in 1..Len(obs) :
              /\ cov[i][j] = cov[j][i]
              /\ i # j =>
                    cov[i][j] =
                       IF obs[i].band = obs[j].band
                          /\ inst[obs[i].band].err_calib # None
                       THEN flux[i] * flux[j]
                            * Get(inst[obs[i].band].err_calib)
                            * Get(inst[obs[i].band].err_calib)
                       ELSE 0

\* a table with two rows in a band with calibration error and non-zero cross
\* term, and a third row in the other band, which has none
C10_Witness ==
    /\ op = "_get_lightcurve_"
    /\ Len(args.obs) = 3
    /\ Get(instruments)["g"].err_calib # None
    /\ Get(instruments)["r"].err_calib = None
    /\ args.obs[1].band = "g" /\ args.obs[2].band = "r" /\ args.obs[3].band = "g"
    /\ ret.val.cov[1][3] = args.flux[1] * args.flux[3]
    /\ ret.val.cov[1][3] < 0
    /\ ret.val.cov[1][2] = 0

\* ======================================================================
\* A survey constructed with generator, plan and instruments, on which only
\* set_target_generator, set_plan and get_lightcurves are called.
\* ======================================================================
InitGen ==
    /\ generator \in {Some(g) : g \in GeneratorInputs}
    /\ plan \in {Some(p) : p \in PlanInputs}
    /\ instruments =
          Some([g |-> Instrument(1, Some(1)), r |-> Instrument(2, None)])
    /\ obs_fields = None /\ non_field_obs = None /\ non_field_obs_exist = "None"
    /\ nevals = 0 /\ coll = EmptyColl
    /\ blinded_bias = None /\ file = None /\ added = None
    /\ op = "init" /\ args = None /\ ret = Ok(None)

NextGen ==
    \/ SetTargetGenerator
    \/ SetPlan
    \/ GetLightcurves

SpecGen == InitGen /\ [][NextGen]_vars

\* ------------------------------------------------------------------- C17
\* C17 as stated: the field assignment a completed run used (the one the
\* survey holds after the run) is the assignment of the positions of the
\* generator set at the run, also when the generator was replaced since the
\* assignment was first computed.
C17_AssignmentOfCurrentGenerator ==
    (op = "get_lightcurves" /\ ret.err = "ok") =>
        obs_fields = get_obs_fields(Get(plan), Coords(Get(generator)).ra,
                                    Coords(Get(generator)).dec)
====
